---- MODULE Spec2Model ----
(***************************************************************************)
(* BeastBet Cloud API (src/main.py): the ingestion and consistency layer.  *)
(*                                                                         *)
(* State: the sqlite tables `matches` and `results`, the master CSV file   *)
(* (the audit log), the process-wide threading.Lock, the wall clock, and   *)
(* for every caller the position inside its request handler.               *)
(*                                                                         *)
(* Encoding of values                                                      *)
(*   - a float is an integer number of hundredths (101 is 1.01); NaN is    *)
(*     the float that no comparison accepts;                               *)
(*   - NULL is what sqlite stores for a REAL it was given NaN for;         *)
(*   - a timestamp (datetime.utcnow().isoformat()) is the integer reading  *)
(*     of the clock; ISO strings of one format order as their instants;    *)
(*   - a cell of the CSV is the text csv.writer writes for the value.      *)
(***************************************************************************)
EXTENDS Integers, Sequences, FiniteSets, TLC

\* ------------------------------------------------------------------ bounds
NumCallers == 2
MaxMatchId == 2
MaxBatch == 2
MaxWrites == 2
MaxClock == 1
MaxOthers == 1
MaxCut == 5
MaxFaults == 1

Callers == 1..NumCallers
MatchIds == 1..MaxMatchId

\* ------------------------------------------------------------------ values
\* float('nan'), outside the hundredths callers submit.
NaN == -1
\* SQL NULL in a REAL column.
NULL == -2
\* The literal 1 of `odds <= 1`, in hundredths.
One == 100
\* _write_lock unlocked.
NoHolder == 0

API_KEY == "supersecret_change_me"
Keys == {"", "wrong", API_KEY}

\* (home, away, source, odds_h, odds_x, odds_a) of the records callers submit:
\* two valid records that differ in every field,
Valid ==
  { <<"Ajax", "Boca", "client", 101, 300, 600>>,
    <<"Cruz", "Deco", "feed",   200, 200, 200>> }

\* one invalid in each single odds field (1.0 itself, zero, 1.0), and one whose
\* odds_h is NaN.
Odd ==
  { <<"Ajax", "Boca", "client", 100, 300, 600>>,
    <<"Ajax", "Boca", "client", 300,   0, 600>>,
    <<"Ajax", "Boca", "client", 300, 600, 100>>,
    <<"Ajax", "Boca", "client", NaN, 300, 600>> }

MatchOf(i, f) ==
  [match_id |-> i, home |-> f[1], away |-> f[2], odds_h |-> f[4],
   odds_x |-> f[5], odds_a |-> f[6], source |-> f[3]]

\* The valid records are submitted for every match_id, the others for the
\* first one.
MatchIn ==
  {MatchOf(i, f) : i \in MatchIds, f \in Valid} \cup {MatchOf(1, f) : f \in Odd}

ResultIn ==
  [match_id : MatchIds \cup {MaxMatchId + 1}, ht_score : {"None"},
   ft_score : {"None", "2-1"}, source : {"client"}]

\* ------------------------------------------------------------------ state
VARIABLES
  matches,    \* table matches: sequence of rows, in rowid order of insertion
  results,    \* table results: sequence of rows
  csv,        \* lines of MASTER_CSV, the header first
  torn,       \* MASTER_CSV ends in a line that has no line terminator (no \r)
  lock,       \* _write_lock: NoHolder, or the caller that acquired it last
  clock,      \* the last reading of datetime.utcnow()
  pc,         \* per caller: position in its handler
  op,         \* per caller: the route being served
  req,        \* per caller: the records of the request iterated so far (of a
              \* predict request: its path parameter)
  left,       \* per caller: elements of payload.matches not yet iterated
  res,        \* per caller: the ResultIn of an add_result request
  existing,   \* per caller: local `existing` of insert_or_update_match
  now,        \* per caller: local `now`
  responses,  \* per caller: local `responses` of upload_matches
  reply,      \* per caller: what its last finished call returned
  writes,     \* number of write calls (insert_or_update_match, insert_result) begun
  others,     \* number of requests served without a write call
  applied,    \* history: the records committed to matches, in commit order
  wid,        \* history: per caller, the index in applied of its last commit
  audited,    \* history: the commits whose line, whole or cut, was written to
              \* csv, in the order of the file
  accepted,   \* history: number of insert_or_update_match calls that returned
  faults      \* history: number of steps of write calls that have raised

vars == <<matches, results, csv, torn, lock, clock, pc, op, req, left, res,
          existing, now, responses, reply, writes, others, applied, wid,
          audited, accepted, faults>>

\* ------------------------------------------------------------------ helpers
\* require_api_key: 0 when the key is accepted, else the HTTP status raised.
require_api_key(x_api_key) ==
  IF x_api_key = "" THEN 401 ELSE IF x_api_key # API_KEY THEN 403 ELSE 0

\* Python's a <= b on floats: false whenever an operand is NaN.
FloatLE(a, b) == a # NaN /\ b # NaN /\ a <= b

\* The test of add_match that raises HTTP 400.
OddsRejected(m) ==
  FloatLE(m.odds_h, One) \/ FloatLE(m.odds_x, One) \/ FloatLE(m.odds_a, One)

\* What sqlite keeps of a Python float bound to a REAL column: NaN becomes NULL.
SqlReal(x) == IF x = NaN THEN NULL ELSE x

\* The row the INSERT statement builds from a MatchIn and `now`.
MatchRow(m, ts) ==
  [match_id |-> m.match_id, home |-> m.home, away |-> m.away,
   odds_h |-> SqlReal(m.odds_h), odds_x |-> SqlReal(m.odds_x),
   odds_a |-> SqlReal(m.odds_a), source |-> m.source, created_at |-> ts]

\* SELECT * FROM matches WHERE match_id=? : the positions of the rows found.
SelectMatch(tbl, id) == {i \in 1..Len(tbl) : tbl[i].match_id = id}

\* `existing` of insert_or_update_match as the `if` reads it: a row was fetched.
FetchOne(tbl, id) == SelectMatch(tbl, id) # {}

\* UPDATE matches SET home=?, away=?, odds_h=?, odds_x=?, odds_a=?, source=?,
\* created_at=? WHERE match_id=?
SqlUpdate(tbl, m, ts) ==
  [i \in 1..Len(tbl) |->
     IF tbl[i].match_id = m.match_id
     THEN [tbl[i] EXCEPT !.home = m.home, !.away = m.away,
                         !.odds_h = SqlReal(m.odds_h),
                         !.odds_x = SqlReal(m.odds_x),
                         !.odds_a = SqlReal(m.odds_a),
                         !.source = m.source, !.created_at = ts]
     ELSE tbl[i]]

\* A rowid table keeps its rows in key order (match_id INTEGER PRIMARY KEY).
PutRow(tbl, r) ==
  LET k == Cardinality({i \in 1..Len(tbl) : tbl[i].match_id <= r.match_id})
  IN  SubSeq(tbl, 1, k) \o <<r>> \o SubSeq(tbl, k + 1, Len(tbl))

\* INSERT INTO matches ... : the PRIMARY KEY of init_db rejects a second row
\* of one match_id (sqlite3.IntegrityError), else the row is stored.
SqlInsert(tbl, m, ts) ==
  IF SelectMatch(tbl, m.match_id) # {}
  THEN [ok |-> FALSE, table |-> tbl]
  ELSE [ok |-> TRUE, table |-> PutRow(tbl, MatchRow(m, ts))]

\* Faulty variant of StoreWrite: the upsert written as a plain insert into a
\* table that declares no key (no existence check, no PRIMARY KEY).
StoreWriteBlind(tbl, ex, m, ts) ==
  [ok |-> TRUE, table |-> PutRow(tbl, MatchRow(m, ts))]

\* The branch `if existing: UPDATE ... else: INSERT ...` and its commit.
StoreWrite(tbl, ex, m, ts) ==
  IF ex THEN [ok |-> TRUE, table |-> SqlUpdate(tbl, m, ts)]
        ELSE SqlInsert(tbl, m, ts)

\* repr() of a float x >= 0 given in hundredths: "1.01", "3.0", "0.5", "0.05".
FloatDigits(x) ==
  LET whole == x \div 100
      frac == x % 100
  IN  ToString(whole) \o "." \o
        (IF frac % 10 = 0 THEN ToString(frac \div 10)
         ELSE IF frac < 10 THEN "0" \o ToString(frac)
         ELSE ToString(frac))

\* csv.writer writes a float cell as repr(float): "1.01", "3.0", "-1.5", "nan".
FloatText(x) ==
  IF x = NaN THEN "nan"
  ELSE IF x < 0 THEN "-" \o FloatDigits(0 - x)
  ELSE FloatDigits(x)

\* The line csv.writer appends for a match write: every cell as text.
CsvRow(m, ts) ==
  <<ToString(m.match_id), m.home, m.away, FloatText(m.odds_h),
    FloatText(m.odds_x), FloatText(m.odds_a), m.source, ToString(ts)>>

\* Text written behind a line that has no terminator: its first cell
\* continues the last cell of that line.
Glue(line, cells) ==
  SubSeq(line, 1, Len(line) - 1) \o <<line[Len(line)] \o cells[1]>> \o
    Tail(cells)

\* open(MASTER_CSV, "a") and writer.writerow(row): the text goes to the end of
\* the file, behind the unterminated line if the file ends in one (t).
CsvAppend(file, t, row) ==
  IF t THEN [file EXCEPT ![Len(file)] = Glue(@, row)] ELSE Append(file, row)

\* The number of bytes of the line csv.writer writes for row, without its
\* line terminator: the cells and the commas between them.
RECURSIVE LineBytes(_)
LineBytes(row) ==
  IF Len(row) = 1 THEN Len(row[1])
  ELSE Len(row[1]) + 1 + LineBytes(Tail(row))

\* What a reader of the file finds of a line of which only the first b bytes
\* were written (1 <= b <= LineBytes(row)): the cells that were begun, the
\* last one as far as its text was written ("1,Aja" is <<"1", "Aja">>, "1,"
\* is <<"1", "">>).
RECURSIVE CutLine(_, _)
CutLine(row, b) ==
  IF Len(row) = 1 \/ b <= Len(row[1])
  THEN <<SubSeq(row[1], 1, IF b <= Len(row[1]) THEN b ELSE Len(row[1]))>>
  ELSE <<row[1]>> \o CutLine(Tail(row), b - Len(row[1]) - 1)

\* The append fails after b bytes of the line reached the file (the buffered
\* line is flushed when the `with` block closes the file, and the flush stops
\* at a byte): the file ends in the cut line.
CsvAppendCut(file, t, row, b) == CsvAppend(file, t, CutLine(row, b))

\* The header init_csv writes when the file does not exist.
CsvHeader ==
  <<"match_id", "home", "away", "odds_h", "odds_x", "odds_a", "source",
    "created_at">>

\* INSERT INTO results ... with id INTEGER PRIMARY KEY AUTOINCREMENT.
ResultRow(tbl, r, ts) ==
  [id |-> Len(tbl) + 1, match_id |-> r.match_id, ht_score |-> r.ht_score,
   ft_score |-> r.ft_score, result_at |-> ts, source |-> r.source]

\* Faulty variant of SqlInsertResult: an upsert keyed on match_id, as the
\* matches table has it, which overwrites the earlier result of the match.
SqlUpsertResult(tbl, r, ts) ==
  IF \E i \in 1..Len(tbl) : tbl[i].match_id = r.match_id
  THEN [i \in 1..Len(tbl) |->
          IF tbl[i].match_id = r.match_id
          THEN [ResultRow(tbl, r, ts) EXCEPT !.id = tbl[i].id]
          ELSE tbl[i]]
  ELSE Append(tbl, ResultRow(tbl, r, ts))

\* INSERT INTO results (match_id, ht_score, ft_score, result_at, source)
\* VALUES (?, ?, ?, ?, ?): a new row after the rows the table has.
SqlInsertResult(tbl, r, ts) == Append(tbl, ResultRow(tbl, r, ts))

\* Faulty variant of CanAcquire: the write section entered without taking the lock.
CanAcquireAlways(l) == TRUE

\* `with _write_lock:` may enter when no caller holds the lock.
CanAcquire(l) == l = NoHolder

\* datetime.utcnow(): a reading not before the last one (capped by MaxClock).
UtcNow(c) == {t \in {c, c + 1} : t <= MaxClock}

\* ------------------------------------------------------------------ reads
\* Faulty variant of CanRead: the read handlers wrapped in `with _write_lock:`.
CanReadUnlocked(l) == l = NoHolder

\* show_matches and predict open a connection of their own and take no lock:
\* they run whoever holds _write_lock.
CanRead(l) == TRUE

\* One row put into a listing that is in descending created_at order, after
\* the rows that are not older than it.
InsertDesc(s, r) ==
  LET k == Cardinality({i \in 1..Len(s) : s[i].created_at >= r.created_at})
  IN  SubSeq(s, 1, k) \o <<r>> \o SubSeq(s, k + 1, Len(s))

\* Faulty variant of OrderByCreatedAtDesc: ORDER BY created_at ASC.
RECURSIVE OrderByCreatedAtAsc(_)
OrderByCreatedAtAsc(tbl) ==
  IF tbl = <<>> THEN <<>>
  ELSE LET s == OrderByCreatedAtAsc(SubSeq(tbl, 1, Len(tbl) - 1))
           r == tbl[Len(tbl)]
           k == Cardinality({i \in 1..Len(s) : s[i].created_at <= r.created_at})
       IN  SubSeq(s, 1, k) \o <<r>> \o SubSeq(s, k + 1, Len(s))

\* SELECT * FROM matches ORDER BY created_at DESC: sqlite scans the table in
\* rowid order and sorts it stably, so rows of one created_at stay in
\* match_id order.
RECURSIVE OrderByCreatedAtDesc(_)
OrderByCreatedAtDesc(tbl) ==
  IF tbl = <<>> THEN <<>>
  ELSE InsertDesc(OrderByCreatedAtDesc(SubSeq(tbl, 1, Len(tbl) - 1)),
                  tbl[Len(tbl)])

\* odds = {"HOME": row["odds_h"], "DRAW": row["odds_x"], "AWAY": row["odds_a"]}
OddsOf(row) == [HOME |-> row.odds_h, DRAW |-> row.odds_x, AWAY |-> row.odds_a]

\* Faulty variant of MinKey: a later key replaces the minimum it ties with.
MinKeyLast(odds) ==
  LET a == IF odds.DRAW <= odds.HOME THEN "DRAW" ELSE "HOME"
  IN  IF odds.AWAY <= odds[a] THEN "AWAY" ELSE a

\* min(odds, key=odds.get): the keys in insertion order HOME, DRAW, AWAY; a
\* later key replaces the minimum only when its value is strictly smaller.
MinKey(odds) ==
  LET a == IF odds.DRAW < odds.HOME THEN "DRAW" ELSE "HOME"
  IN  IF odds.AWAY < odds[a] THEN "AWAY" ELSE a

\* round(n / d) of Python for n >= 0, d > 0: to the nearest integer, a half
\* to the even neighbour.
RoundHalfEven(n, d) ==
  LET q == n \div d
      r == n % d
  IN  IF 2 * r < d THEN q
      ELSE IF 2 * r > d THEN q + 1
      ELSE IF q % 2 = 0 THEN q ELSE q + 1

\* Faulty variant of Confidence: round(1.0 / odds[pick], 2), not clamped.
ConfidenceUnclamped(o) ==
  IF o < 0 THEN 0 - RoundHalfEven(10000, 0 - o) ELSE RoundHalfEven(10000, o)

\* round(max(0.5, min(0.95, 1.0 / o)), 2) in hundredths, for odds o # 0 in
\* hundredths: 1.0 / o is 10000 / o hundredths.
Confidence(o) ==
  IF o < 0 \/ 10000 <= 50 * o THEN 50
  ELSE IF 10000 >= 95 * o THEN 95
  ELSE RoundHalfEven(10000, o)

\* ------------------------------------------------------------------ replies
NoReply ==
  [code |-> 0, status |-> "", match_id |-> 0, count |-> 0, results |-> <<>>,
   rows |-> <<>>, home |-> "", away |-> "", pick |-> "", confidence |-> 0,
   odds_used |-> 0]

Reply(code, status, id) == [NoReply EXCEPT !.code = code, !.status = status,
                                           !.match_id = id]

BatchReply(rs) == [NoReply EXCEPT !.code = 200, !.status = "ok",
                                  !.count = Len(rs), !.results = rs]

NoResult == [match_id |-> 0]

\* The list show_matches returns.
RowsReply(rows) == [NoReply EXCEPT !.code = 200, !.status = "rows",
                                   !.rows = rows]

\* predict after the row was fetched: min() raises TypeError on an odds value
\* that is None, 1.0 / 0.0 raises ZeroDivisionError (both end as HTTP 500),
\* else the prediction is returned.
Predict(row) ==
  LET odds == OddsOf(row) IN
  IF NULL \in {odds.HOME, odds.DRAW, odds.AWAY}
    THEN Reply(500, "TypeError", 0)
  ELSE IF odds[MinKey(odds)] = 0
    THEN Reply(500, "ZeroDivisionError", 0)
  ELSE [Reply(200, "prediction", row.match_id) EXCEPT
          !.home = row.home, !.away = row.away, !.pick = MinKey(odds),
          !.confidence = Confidence(odds[MinKey(odds)]),
          !.odds_used = odds[MinKey(odds)]]

Cur(c) == req[c][Len(req[c])]

\* ------------------------------------------------------------------ Init
Init ==
  /\ matches = <<>>
  /\ results = <<>>
  /\ csv = <<CsvHeader>>
  /\ torn = FALSE
  /\ lock = NoHolder
  /\ clock = 0
  /\ pc = [c \in Callers |-> "idle"]
  /\ op = [c \in Callers |-> "none"]
  /\ req = [c \in Callers |-> <<>>]
  /\ left = [c \in Callers |-> 0]
  /\ res = [c \in Callers |-> NoResult]
  /\ existing = [c \in Callers |-> FALSE]
  /\ now = [c \in Callers |-> 0]
  /\ responses = [c \in Callers |-> <<>>]
  /\ reply = [c \in Callers |-> NoReply]
  /\ writes = 0
  /\ others = 0
  /\ applied = <<>>
  /\ wid = [c \in Callers |-> 0]
  /\ audited = <<>>
  /\ accepted = 0
  /\ faults = 0

store == <<matches, results, csv, torn>>
\* A step of some write call has raised.
failed == faults > 0
hist == <<applied, audited, accepted>>
locals == <<existing, now, responses, wid>>

\* A request arrives at an idle caller on `route`.
Begin(c, route) ==
  /\ pc[c] = "idle"
  /\ op' = [op EXCEPT ![c] = route]

\* The handler goes on to its k write calls (the model stops at MaxWrites).
Enter(c, k) ==
  /\ writes + k <= MaxWrites
  /\ writes' = writes + k
  /\ UNCHANGED others
  /\ pc' = [pc EXCEPT ![c] = "lock"]
  /\ reply' = [reply EXCEPT ![c] = NoReply]

\* The handler ends, with a body or an exception; its locals are gone and
\* the response waits to be delivered.
Finish(c, r) ==
  /\ reply' = [reply EXCEPT ![c] = r]
  /\ pc' = [pc EXCEPT ![c] = "done"]
  /\ existing' = [existing EXCEPT ![c] = FALSE]
  /\ now' = [now EXCEPT ![c] = 0]
  /\ responses' = [responses EXCEPT ![c] = <<>>]
  /\ wid' = [wid EXCEPT ![c] = 0]

\* The handler ends without a write call (the model stops at MaxOthers).
Serve(c, r) ==
  /\ others < MaxOthers
  /\ others' = others + 1
  /\ Finish(c, r)

\* ------------------------------------------------------------------ routes
\* POST /add_match/ up to the call of insert_or_update_match.
add_match(c) ==
  \E key \in Keys, m \in MatchIn :
    /\ Begin(c, "add_match")
    /\ left' = [left EXCEPT ![c] = 0]
    /\ IF require_api_key(key) # 0
         THEN /\ Serve(c, Reply(require_api_key(key), "api key", 0))
              /\ req' = [req EXCEPT ![c] = <<>>]
              /\ UNCHANGED writes
       ELSE IF OddsRejected(m)
         THEN /\ Serve(c, Reply(400, "Odds must be > 1.0", 0))
              /\ req' = [req EXCEPT ![c] = <<m>>]
              /\ UNCHANGED writes
       ELSE /\ Enter(c, 1)
            /\ req' = [req EXCEPT ![c] = <<m>>]
            /\ UNCHANGED locals
    /\ UNCHANGED <<store, lock, clock, res, hist, faults>>

\* POST /upload_matches/ up to the first insert_or_update_match(m); the
\* elements of payload.matches are bound as the loop reaches them.
upload_matches(c) ==
  \E key \in Keys, n \in 0..MaxBatch :
    /\ Begin(c, "upload_matches")
    /\ IF require_api_key(key) # 0
         THEN /\ Serve(c, Reply(require_api_key(key), "api key", 0))
              /\ req' = [req EXCEPT ![c] = <<>>]
              /\ left' = [left EXCEPT ![c] = 0]
              /\ UNCHANGED writes
       ELSE IF n = 0
         THEN /\ Serve(c, BatchReply(<<>>))
              /\ req' = [req EXCEPT ![c] = <<>>]
              /\ left' = [left EXCEPT ![c] = 0]
              /\ UNCHANGED writes
       ELSE \E m \in MatchIn :
              /\ Enter(c, n)
              /\ req' = [req EXCEPT ![c] = <<m>>]
              /\ left' = [left EXCEPT ![c] = n - 1]
              /\ UNCHANGED locals
    /\ UNCHANGED <<store, lock, clock, res, hist, faults>>

\* POST /add_result/ up to the call of insert_result.
add_result(c) ==
  \E key \in Keys, r \in ResultIn :
    /\ Begin(c, "add_result")
    /\ req' = [req EXCEPT ![c] = <<>>]
    /\ left' = [left EXCEPT ![c] = 0]
    /\ IF require_api_key(key) # 0
         THEN /\ Serve(c, Reply(require_api_key(key), "api key", 0))
              /\ res' = [res EXCEPT ![c] = NoResult]
              /\ UNCHANGED writes
       ELSE /\ Enter(c, 1)
            /\ res' = [res EXCEPT ![c] = r]
            /\ UNCHANGED locals
    /\ UNCHANGED <<store, lock, clock, hist, faults>>

\* GET /show_matches/: get_conn() and one SELECT on a connection of its own;
\* an error of sqlite leaves the handler (HTTP 500).
show_matches(c) ==
  \E key \in Keys :
    /\ Begin(c, "show_matches")
    /\ CanRead(lock)
    /\ req' = [req EXCEPT ![c] = <<>>]
    /\ left' = [left EXCEPT ![c] = 0]
    /\ IF require_api_key(key) # 0
         THEN Serve(c, Reply(require_api_key(key), "api key", 0))
       ELSE \E ok \in BOOLEAN :
              IF ok THEN Serve(c, RowsReply(OrderByCreatedAtDesc(matches)))
              ELSE Serve(c, Reply(500, "sqlite3.Error", 0))
    /\ UNCHANGED <<store, lock, clock, res, writes, hist, faults>>

\* GET /predict/{match_id}: get_conn() and one SELECT on a connection of its
\* own (an error of sqlite leaves the handler, HTTP 500), then the pick from
\* the row fetched.
predict(c) ==
  \E key \in Keys, match_id \in MatchIds \cup {MaxMatchId + 1} :
    /\ Begin(c, "predict")
    /\ CanRead(lock)
    /\ left' = [left EXCEPT ![c] = 0]
    /\ IF require_api_key(key) # 0
         THEN /\ Serve(c, Reply(require_api_key(key), "api key", 0))
              /\ req' = [req EXCEPT ![c] = <<>>]
       ELSE /\ req' = [req EXCEPT ![c] = <<[match_id |-> match_id]>>]
            /\ \E ok \in BOOLEAN :
                 LET found == SelectMatch(matches, match_id) IN
                 IF ~ok
                 THEN Serve(c, Reply(500, "sqlite3.Error", 0))
                 ELSE IF found = {}
                 THEN Serve(c, Reply(404, "Match not found", 0))
                 ELSE Serve(c, Predict(matches[CHOOSE i \in found :
                                                \A j \in found : i <= j]))
    /\ UNCHANGED <<store, lock, clock, res, writes, hist, faults>>

\* ------------------------------------------------------------------ writes
\* Faulty variant of Raise: an error of the store step is swallowed (try/except
\* around the sqlite calls) and the function goes on to the CSV append.
RaiseSwallowed(c, exc) ==
  IF pc[c] \in {"select", "write"}
  THEN /\ pc' = [pc EXCEPT ![c] = "audit"]
       /\ faults' = faults + 1
       /\ UNCHANGED <<lock, reply, locals>>
  ELSE /\ lock' = NoHolder
       /\ faults' = faults + 1
       /\ Finish(c, Reply(500, exc, 0))

\* Faulty variant of Raise: the lock taken with _write_lock.acquire() and
\* released only before `return`, so an exception leaves it held.
RaiseHoldingLock(c, exc) ==
  /\ faults' = faults + 1
  /\ Finish(c, Reply(500, exc, 0))
  /\ UNCHANGED lock

\* An exception leaves the `with _write_lock:` block (the lock is released)
\* and the handler: the caller gets HTTP 500.
Raise(c, exc) ==
  /\ lock' = NoHolder
  /\ faults' = faults + 1
  /\ Finish(c, Reply(500, exc, 0))

\* Whether a step of a write call goes through (TRUE) or its call of sqlite or
\* of the file system raises (FALSE; the model stops at MaxFaults such errors).
Faulty == IF faults < MaxFaults THEN BOOLEAN ELSE {TRUE}

\* with _write_lock:
Acquire(c) ==
  /\ pc[c] = "lock"
  /\ CanAcquire(lock)
  /\ lock' = c
  /\ pc' = [pc EXCEPT ![c] = IF op[c] = "add_result" THEN "result" ELSE "select"]
  /\ UNCHANGED <<store, clock, op, req, left, res, locals, reply, writes,
                 others, hist, faults>>

\* get_conn(), the SELECT, fetchone() and now = utcnow().isoformat().
Select(c) ==
  /\ pc[c] = "select"
  /\ \E ok \in Faulty :
       IF ok
       THEN /\ existing' = [existing EXCEPT ![c] = FetchOne(matches, Cur(c).match_id)]
            /\ \E t \in UtcNow(clock) :
                 /\ now' = [now EXCEPT ![c] = t]
                 /\ clock' = t
            /\ pc' = [pc EXCEPT ![c] = "write"]
            /\ UNCHANGED <<lock, reply, responses, wid, faults>>
       ELSE /\ Raise(c, "sqlite3.Error")
            /\ UNCHANGED clock
  /\ UNCHANGED <<store, op, req, left, res, writes, others, hist>>

\* The UPDATE or INSERT, conn.commit() and conn.close().
Write(c) ==
  /\ pc[c] = "write"
  /\ \E ok \in Faulty :
       LET w == StoreWrite(matches, existing[c], Cur(c), now[c]) IN
       IF ok /\ w.ok
       THEN /\ matches' = w.table
            /\ applied' = Append(applied, Cur(c))
            /\ wid' = [wid EXCEPT ![c] = Len(applied) + 1]
            /\ pc' = [pc EXCEPT ![c] = "audit"]
            /\ UNCHANGED <<lock, reply, existing, now, responses, faults>>
       ELSE /\ Raise(c, "sqlite3.Error")
            /\ UNCHANGED <<matches, applied>>
  /\ UNCHANGED <<results, csv, torn, clock, op, req, left, res, writes, others,
                 audited, accepted>>

\* open(MASTER_CSV, "a"), writer.writerow(...) and the close of the file, which
\* flushes the buffered line. When it raises, b bytes of the line reached the
\* file: none (open() failed, or the flush wrote nothing); some of the bytes
\* of the cells, which leaves a cut line without a terminator (the model stops
\* at MaxCut bytes); or all of them and the \r of the terminator \r\n, which
\* ends the line for a reader of the file and for the next append.
Audit(c) ==
  /\ pc[c] = "audit"
  /\ \E ok \in Faulty :
       LET row == CsvRow(Cur(c), now[c]) IN
       IF ok
       THEN /\ csv' = CsvAppend(csv, torn, row)
            /\ torn' = FALSE
            /\ audited' = Append(audited, wid[c])
            /\ pc' = [pc EXCEPT ![c] = "return"]
            /\ UNCHANGED <<lock, reply, locals, faults>>
       ELSE /\ Raise(c, "OSError")
            /\ \E b \in 0..(LineBytes(row) + 1) :
                 /\ b <= MaxCut \/ b = LineBytes(row) + 1
                 /\ IF b = 0
                      THEN UNCHANGED <<csv, torn, audited>>
                    ELSE IF b <= LineBytes(row)
                      THEN /\ csv' = CsvAppendCut(csv, torn, row, b)
                           /\ torn' = TRUE
                           /\ audited' = Append(audited, wid[c])
                    ELSE /\ csv' = CsvAppend(csv, torn, row)
                         /\ torn' = FALSE
                         /\ audited' = Append(audited, wid[c])
  /\ UNCHANGED <<matches, results, clock, op, req, left, res, writes, others,
                 applied, accepted>>

\* Faulty variant of Status: the branch taken is not reported, every write
\* answers "inserted".
StatusAlwaysInserted(c) ==
  [status |-> "inserted", match_id |-> Cur(c).match_id]

\* The dict insert_or_update_match returns.
Status(c) ==
  [status |-> IF existing[c] THEN "updated" ELSE "inserted",
   match_id |-> Cur(c).match_id]

\* return {...}: the lock is released and the route goes on: add_match
\* returns the dict, upload_matches appends it and takes the next element.
Return(c) ==
  /\ pc[c] = "return"
  /\ lock' = NoHolder
  /\ accepted' = accepted + 1
  /\ IF op[c] = "add_match"
       THEN /\ Finish(c, Reply(200, Status(c).status, Status(c).match_id))
            /\ UNCHANGED <<req, left, writes, others>>
     ELSE IF left[c] = 0
       THEN /\ Finish(c, BatchReply(Append(responses[c], Status(c))))
            /\ UNCHANGED <<req, left, writes, others>>
     ELSE \E m \in MatchIn :
            /\ Enter(c, 0)
            /\ responses' = [responses EXCEPT ![c] = Append(@, Status(c))]
            /\ req' = [req EXCEPT ![c] = Append(@, m)]
            /\ left' = [left EXCEPT ![c] = @ - 1]
            /\ UNCHANGED <<existing, now, wid>>
  /\ UNCHANGED <<store, clock, op, res, applied, audited, faults>>

\* insert_result: get_conn(), now = utcnow(), the INSERT, commit and close.
\* When it raises, get_conn() failed before the clock was read, or the INSERT
\* or the commit failed after it.
InsertResult(c) ==
  /\ pc[c] = "result"
  /\ \E ok \in Faulty :
       IF ok
       THEN /\ \E t \in UtcNow(clock) :
                 /\ results' = SqlInsertResult(results, res[c], t)
                 /\ now' = [now EXCEPT ![c] = t]
                 /\ clock' = t
            /\ pc' = [pc EXCEPT ![c] = "result_return"]
            /\ UNCHANGED <<lock, reply, existing, responses, wid, faults>>
       ELSE /\ Raise(c, "sqlite3.Error")
            /\ \E t \in {clock} \cup UtcNow(clock) : clock' = t
            /\ UNCHANGED results
  /\ UNCHANGED <<matches, csv, torn, op, req, left, res, writes, others, hist>>

\* return {"status": "inserted_result", ...} of insert_result and add_result.
ReturnResult(c) ==
  /\ pc[c] = "result_return"
  /\ lock' = NoHolder
  /\ Finish(c, Reply(200, "inserted_result", res[c].match_id))
  /\ UNCHANGED <<store, clock, op, req, left, res, writes, others, hist,
                 faults>>

\* The response leaves the server; the caller may send its next request.
Deliver(c) ==
  /\ pc[c] = "done"
  /\ pc' = [pc EXCEPT ![c] = "idle"]
  /\ op' = [op EXCEPT ![c] = "none"]
  /\ req' = [req EXCEPT ![c] = <<>>]
  /\ left' = [left EXCEPT ![c] = 0]
  /\ res' = [res EXCEPT ![c] = NoResult]
  /\ reply' = [reply EXCEPT ![c] = NoReply]
  /\ UNCHANGED <<store, lock, clock, locals, writes, others, hist, faults>>

Next ==
  \E c \in Callers :
    \/ Deliver(c)
    \/ add_match(c)
    \/ upload_matches(c)
    \/ add_result(c)
    \/ Acquire(c)
    \/ Select(c)
    \/ Write(c)
    \/ Audit(c)
    \/ Return(c)
    \/ InsertResult(c)
    \/ ReturnResult(c)
    \/ show_matches(c)
    \/ predict(c)

Spec == Init /\ [][Next]_vars

\* ------------------------------------------------------------------ fairness
\* The next step of caller c once its handler has started a write call: the
\* lock is taken, the handler goes on inside the write section, the response
\* is delivered.
Proceed(c) ==
  \/ Deliver(c)
  \/ Acquire(c)
  \/ Select(c)
  \/ Write(c)
  \/ Audit(c)
  \/ Return(c)
  \/ InsertResult(c)
  \/ ReturnResult(c)

\* A thread that can take its next step takes it: a response is delivered, a
\* running handler goes on, and acquire() of a thread that waits for
\* _write_lock returns when the lock is free and stays free. Nothing is
\* assumed about which of several waiting threads gets a lock that is
\* released: threading.Lock hands it to any of them.
Fairness == \A c \in Callers : WF_vars(Proceed(c))

\* The behaviours in which every request makes a write call: a request that
\* makes none takes no step of a write call and never touches _write_lock.
InitLive ==
  /\ matches = <<>>
  /\ results = <<>>
  /\ csv = <<CsvHeader>>
  /\ torn = FALSE
  /\ lock = NoHolder
  /\ clock = 0
  /\ pc = [c \in Callers |-> "idle"]
  /\ op = [c \in Callers |-> "none"]
  /\ req = [c \in Callers |-> <<>>]
  /\ left = [c \in Callers |-> 0]
  /\ res = [c \in Callers |-> NoResult]
  /\ existing = [c \in Callers |-> FALSE]
  /\ now = [c \in Callers |-> 0]
  /\ responses = [c \in Callers |-> <<>>]
  /\ reply = [c \in Callers |-> NoReply]
  /\ writes = 0
  /\ others = MaxOthers
  /\ applied = <<>>
  /\ wid = [c \in Callers |-> 0]
  /\ audited = <<>>
  /\ accepted = 0
  /\ faults = 0

NextLive ==
  \E c \in Callers :
    \/ Proceed(c)
    \/ add_match(c)
    \/ upload_matches(c)
    \/ add_result(c)

LiveSpec == InitLive /\ [][NextLive]_vars /\ Fairness

\* ------------------------------------------------------------------ predict
\* Odds values a stored record can carry: NaN, zero, a negative number, values
\* up to 1.0, values whose inverse is clamped at 0.95 (1.01, 1.05) or at 0.50
\* (2.0 and more), and values in between, 1.60 with 1/1.6 = 0.625 among them.
OddsGrid == {NaN, -500, 0, 50, 100, 101, 105, 106, 120, 150, 160, 200, 300, 600}

\* The store after one upload_matches call with one record of match_id 1 has
\* returned and was delivered: its row, its audit line, its history.
InitPredict ==
  \E h, x, a \in OddsGrid :
    LET m == [match_id |-> 1, home |-> "Ajax", away |-> "Boca", odds_h |-> h,
              odds_x |-> x, odds_a |-> a, source |-> "feed"]
    IN  /\ matches = <<MatchRow(m, 0)>>
        /\ results = <<>>
        /\ csv = <<CsvHeader, CsvRow(m, 0)>>
        /\ torn = FALSE
        /\ lock = NoHolder
        /\ clock = 0
        /\ pc = [c \in Callers |-> "idle"]
        /\ op = [c \in Callers |-> "none"]
        /\ req = [c \in Callers |-> <<>>]
        /\ left = [c \in Callers |-> 0]
        /\ res = [c \in Callers |-> NoResult]
        /\ existing = [c \in Callers |-> FALSE]
        /\ now = [c \in Callers |-> 0]
        /\ responses = [c \in Callers |-> <<>>]
        /\ reply = [c \in Callers |-> NoReply]
        /\ writes = 1
        /\ others = 0
        /\ applied = <<m>>
        /\ wid = [c \in Callers |-> 0]
        /\ audited = <<1>>
        /\ accepted = 1
        /\ faults = 0

\* Callers that only call predict on that store.
NextPredict ==
  \E c \in Callers :
    \/ Deliver(c)
    \/ predict(c)

SpecPredict == InitPredict /\ [][NextPredict]_vars

\* ------------------------------------------------------------------ listing
\* The store after two add_match calls have inserted match 1 and match 2, in
\* either order, have returned and were delivered; the second call read the
\* clock not before the first. Of the write calls of the model one is left.
InitList ==
  \E first \in {1, 2}, t1, t2 \in 0..MaxClock :
    LET a == MatchOf(first, IF first = 1
                            THEN <<"Ajax", "Boca", "client", 101, 300, 600>>
                            ELSE <<"Cruz", "Deco", "feed", 200, 200, 200>>)
        b == MatchOf(3 - first, IF first = 1
                                THEN <<"Cruz", "Deco", "feed", 200, 200, 200>>
                                ELSE <<"Ajax", "Boca", "client", 101, 300, 600>>)
    IN  /\ t1 <= t2
        /\ matches = SqlInsert(SqlInsert(<<>>, a, t1).table, b, t2).table
        /\ results = <<>>
        /\ csv = <<CsvHeader, CsvRow(a, t1), CsvRow(b, t2)>>
        /\ torn = FALSE
        /\ lock = NoHolder
        /\ clock = t2
        /\ pc = [c \in Callers |-> "idle"]
        /\ op = [c \in Callers |-> "none"]
        /\ req = [c \in Callers |-> <<>>]
        /\ left = [c \in Callers |-> 0]
        /\ res = [c \in Callers |-> NoResult]
        /\ existing = [c \in Callers |-> FALSE]
        /\ now = [c \in Callers |-> 0]
        /\ responses = [c \in Callers |-> <<>>]
        /\ reply = [c \in Callers |-> NoReply]
        /\ writes = MaxWrites - 1
        /\ others = 0
        /\ applied = <<a, b>>
        /\ wid = [c \in Callers |-> 0]
        /\ audited = <<1, 2>>
        /\ accepted = 2
        /\ faults = 0

\* Every route on that store.
SpecList == InitList /\ [][Next]_vars

\* ================================================================== claims
\* Callers inside `with _write_lock:` of insert_or_update_match/insert_result.
InWrite(c) ==
  pc[c] \in {"select", "write", "audit", "return", "result", "result_return"}

\* The data lines of the audit log (the CSV without its header).
Entries == SubSeq(csv, 2, Len(csv))

\* A float strictly greater than 1.0.
GreaterThanOne(x) == x # NaN /\ x > One
ValidOdds(m) ==
  GreaterThanOne(m.odds_h) /\ GreaterThanOne(m.odds_x) /\ GreaterThanOne(m.odds_a)

\* ------------------------------------------------------------------ C1
\* C1: in every reachable state the matches table holds at most one row per
\* match_id, whatever the interleaving of add_match, upload_matches and
\* add_result.
C1_OneRowPerMatchId ==
  \A i, j \in 1..Len(matches) :
    matches[i].match_id = matches[j].match_id => i = j

\* Two different records were committed for one match_id and one row is there.
C1_Witness ==
  /\ Len(applied) = 2
  /\ applied[1].match_id = applied[2].match_id
  /\ applied[1] # applied[2]
  /\ Len(matches) = 1

\* ------------------------------------------------------------------ C2
\* C2: at most one caller is inside the write section at any moment, and
\* every step that changes the matches table, the results table or the audit
\* log is taken by the caller that holds the write lock.
C2_WriteSectionExclusive ==
  /\ [](\A c, d \in Callers : (InWrite(c) /\ InWrite(d)) => c = d)
  /\ [][(matches' # matches \/ results' # results \/ csv' # csv)
          => (lock \in Callers /\ InWrite(lock) /\ pc'[lock] # pc[lock])]_vars

\* One caller is between its commit and its audit line, another waits.
C2_Witness ==
  \E c, d \in Callers :
    /\ c # d
    /\ pc[c] = "audit"
    /\ lock = c
    /\ pc[d] = "lock"

\* ------------------------------------------------------------------ C3
\* C3: when the store step of a match write fails (connect, SELECT,
\* INSERT/UPDATE or commit), the call ends with the error and changes neither
\* the matches table nor the audit log; so whatever the audit log holds was
\* written for a write the store committed.
C3_StoreFailureWritesNothing ==
  /\ [](\A k \in 1..Len(audited) : audited[k] \in 1..Len(applied))
  /\ [][\A c \in Callers :
          (\/ pc[c] = "select" /\ pc'[c] \notin {"select", "write"}
           \/ pc[c] = "write" /\ pc'[c] \notin {"write", "audit"})
          => /\ matches' = matches
             /\ csv' = csv
             /\ torn' = torn
             /\ pc'[c] = "done"
             /\ reply'[c].code = 500
             /\ reply'[c].status \notin {"inserted", "updated", "ok"}]_vars

\* The second element of a batch failed in the store after the first one was
\* committed and logged.
C3_Witness ==
  \E c \in Callers :
    /\ pc[c] = "done"
    /\ op[c] = "upload_matches"
    /\ Len(req[c]) = 2
    /\ reply[c].code = 500
    /\ reply[c].status = "sqlite3.Error"
    /\ Len(applied) = 1
    /\ Len(csv) = 2

\* ------------------------------------------------------------------ C4
\* C4: for every insert_or_update_match call that has returned (with a status
\* or with an error), the matches table has the call's write if and only if
\* the audit log has the call's line: no commit is left without its line.
C4_StoreAndAuditAllOrNothing ==
  (\A c \in Callers : pc[c] # "audit") => Len(audited) = Len(applied)

\* ------------------------------------------------------------------ C5
\* C5: for every match_id the audit lines of that id are in the order in which
\* their writes were committed to the matches table.
C5_AuditOrderIsCommitOrder ==
  \A i, j \in 1..Len(audited) :
    (/\ i < j
     /\ audited[i] \in 1..Len(applied)
     /\ audited[j] \in 1..Len(applied)
     /\ applied[audited[i]].match_id = applied[audited[j]].match_id)
    => audited[i] < audited[j]

\* Two writes of one match_id are both committed and both logged.
C5_Witness ==
  /\ Len(audited) = 2
  /\ Len(applied) = 2
  /\ applied[1].match_id = applied[2].match_id
  /\ applied[1] # applied[2]

\* ------------------------------------------------------------------ C6
\* The write of match_id id that was committed last, 0 when there is none.
LastApplied(id) ==
  LET ws == {k \in 1..Len(applied) : applied[k].match_id = id}
  IN  IF ws = {} THEN 0 ELSE CHOOSE k \in ws : \A l \in ws : l <= k

\* C6: the live row of each match_id equals, in home, away, odds_h, odds_x,
\* odds_a and source, the payload of the write to that id that was applied
\* last; an id nobody wrote has no row.
C6_RowIsLastPayload ==
  \A id \in MatchIds :
    LET rows == {i \in 1..Len(matches) : matches[i].match_id = id}
        k == LastApplied(id)
    IN  IF k = 0 THEN rows = {}
        ELSE /\ rows # {}
             /\ \A i \in rows :
                  /\ matches[i].home = applied[k].home
                  /\ matches[i].away = applied[k].away
                  /\ matches[i].odds_h = applied[k].odds_h
                  /\ matches[i].odds_x = applied[k].odds_x
                  /\ matches[i].odds_a = applied[k].odds_a
                  /\ matches[i].source = applied[k].source

\* With the odds as sqlite keeps them (NaN stored as NULL) the live row of each
\* match_id is the write to that id committed last, whole.
RowIsLastWriteAsStored ==
  \A id \in MatchIds :
    LET rows == {i \in 1..Len(matches) : matches[i].match_id = id}
        k == LastApplied(id)
    IN  IF k = 0 THEN rows = {}
        ELSE /\ Cardinality(rows) = 1
             /\ \A i \in rows :
                  \E t \in 0..MaxClock : matches[i] = MatchRow(applied[k], t)

\* ------------------------------------------------------------------ C7
\* C7: the audit log only grows, one line at a time and at its end, and the
\* number of its lines equals the number of match writes that returned
\* inserted or updated (plus the writes that are logged and about to return).
C7_AuditAppendOnly ==
  /\ [](Len(csv) >= 1 /\ csv[1] = CsvHeader)
  /\ [](Len(Entries) =
          accepted + Cardinality({c \in Callers : pc[c] = "return"}))
  /\ [][/\ Len(csv') \in {Len(csv), Len(csv) + 1}
        /\ SubSeq(csv', 1, Len(csv)) = csv]_vars

\* What does hold: the text of the audit log only grows at its end. A step
\* leaves the file alone, or adds a line behind the last terminated line, or
\* continues the last line where a failed append has cut it; and while no step
\* of a write has failed, the lines are those of the accepted writes.
AuditTextAppendOnly ==
  /\ [](Len(csv) >= 1 /\ csv[1] = CsvHeader)
  /\ [](~failed => /\ ~torn
                    /\ Len(Entries) =
                         accepted + Cardinality({c \in Callers : pc[c] = "return"}))
  /\ [][\/ csv' = csv
        \/ /\ ~torn
           /\ Len(csv') = Len(csv) + 1
           /\ SubSeq(csv', 1, Len(csv)) = csv
        \/ /\ torn
           /\ Len(csv') = Len(csv)
           /\ SubSeq(csv', 1, Len(csv) - 1) = SubSeq(csv, 1, Len(csv) - 1)
           /\ Len(csv'[Len(csv)]) >= Len(csv[Len(csv)])
           /\ SubSeq(csv'[Len(csv)], 1, Len(csv[Len(csv)]) - 1) =
                SubSeq(csv[Len(csv)], 1, Len(csv[Len(csv)]) - 1)]_vars

\* The append of one write was cut and the line of the next accepted write
\* continues the cut line: one line for two commits.
AuditLineGlued ==
  /\ Len(applied) = 2
  /\ Len(audited) = 2
  /\ accepted = 1
  /\ Len(Entries) = 1
  /\ ~torn

\* An insert and then an update of one match_id have both returned.
C7_Witness ==
  /\ accepted = 2
  /\ Len(csv) = 3
  /\ csv[2][1] = csv[3][1]
  /\ \A c \in Callers : pc[c] \in {"idle", "done"}

\* ------------------------------------------------------------------ C8
\* C8: add_match rejects (HTTP 400) every record one of whose odds is not
\* strictly greater than 1.0, before any write: such a record never reaches
\* insert_or_update_match.
C8_AddMatchRejectsInvalidOdds ==
  \A c \in Callers :
    (op[c] = "add_match" /\ req[c] # <<>> /\ ~ValidOdds(req[c][1]))
    => (pc[c] = "done" /\ reply[c].code = 400)

\* For odds that are numbers add_match does what C8 says: a record with an
\* odds value <= 1.0 ends with HTTP 400 at once, and the step that rejects it
\* changes neither the tables, the audit log nor the lock.
AddMatchRejectsNumericOdds ==
  /\ [](\A c \in Callers :
          (/\ op[c] = "add_match" /\ req[c] # <<>>
           /\ NaN \notin {req[c][1].odds_h, req[c][1].odds_x, req[c][1].odds_a})
          => (ValidOdds(req[c][1]) <=> ~(pc[c] = "done" /\ reply[c].code = 400)))
  /\ [][\A c \in Callers :
          (pc[c] = "idle" /\ pc'[c] = "done" /\ reply'[c].code = 400)
          => UNCHANGED <<matches, results, csv, lock>>]_vars

\* ------------------------------------------------------------------ C9
\* C9: in the outcome sequence of upload_matches an element whose odds are not
\* all strictly greater than 1.0 is reported InvalidOdds (and is not written).
C9_BatchRejectsInvalidOdds ==
  \A c \in Callers :
    (op[c] = "upload_matches" /\ pc[c] = "done" /\ reply[c].code = 200)
    => \A i \in 1..Len(req[c]) :
         ~ValidOdds(req[c][i]) => reply[c].results[i].status = "InvalidOdds"

\* ------------------------------------------------------------------ C10
\* C10: an authorized upload_matches call always returns one outcome per
\* submitted element, with count the number of elements, whatever failed on
\* the way: no element is left unprocessed.
C10_BatchNeverAborts ==
  \A c \in Callers :
    (op[c] = "upload_matches" /\ pc[c] = "done"
       /\ reply[c].code \notin {401, 403})
    => /\ reply[c].code = 200
       /\ left[c] = 0
       /\ reply[c].count = Len(req[c])
       /\ Len(reply[c].results) = Len(req[c])

\* ------------------------------------------------------------------ C11
\* The write caller c has committed is the first committed write of its id.
FirstApplied(c) ==
  ~\E k \in 1..(wid[c] - 1) : applied[k].match_id = Cur(c).match_id

\* The status a Return step of caller c hands to the route.
Returned(c, r, rs) ==
  IF op[c] = "add_match" THEN r.status
  ELSE IF left[c] = 0 THEN r.results[Len(r.results)].status
  ELSE rs[Len(rs)].status

\* C11: a match write returns "inserted" if and only if no row of its match_id
\* existed at the moment the write was applied, and "updated" otherwise: what
\* the SELECT found is still true when the write is applied, and among the
\* committed writes of one match_id exactly the first returns "inserted".
C11_InsertedIffNoRow ==
  /\ [](\A c \in Callers :
          pc[c] = "write" => (existing[c] <=> FetchOne(matches, Cur(c).match_id)))
  /\ [](\A c \in Callers :
          pc[c] \in {"audit", "return"}
          => /\ wid[c] \in 1..Len(applied)
             /\ applied[wid[c]] = Cur(c)
             /\ (Status(c).status = "inserted" <=> FirstApplied(c))
             /\ (Status(c).status = "updated" <=> ~FirstApplied(c)))
  /\ [][\A c \in Callers :
          (pc[c] = "return" /\ pc'[c] # "return")
          => Returned(c, reply'[c], responses'[c]) =
               (IF FirstApplied(c) THEN "inserted" ELSE "updated")]_vars

\* One batch wrote the same match_id twice: the first element returned
\* "inserted" and the second "updated".
C11_Witness ==
  \E c \in Callers :
    /\ pc[c] = "done"
    /\ op[c] = "upload_matches"
    /\ reply[c].code = 200
    /\ Len(reply[c].results) = 2
    /\ reply[c].results[1].match_id = reply[c].results[2].match_id
    /\ reply[c].results[1].status = "inserted"
    /\ reply[c].results[2].status = "updated"

\* ------------------------------------------------------------------ C12
\* A stored REAL that is a number strictly greater than 1.0.
StoredGreaterThanOne(x) == x # NULL /\ x > One

\* C12: every live match row has odds_h, odds_x and odds_a each strictly
\* greater than 1.0, in every state add_match and upload_matches can reach.
C12_LiveOddsGreaterThanOne ==
  \A i \in 1..Len(matches) :
    /\ StoredGreaterThanOne(matches[i].odds_h)
    /\ StoredGreaterThanOne(matches[i].odds_x)
    /\ StoredGreaterThanOne(matches[i].odds_a)

\* Whatever add_match stores has odds that no comparison `odds <= 1` accepts:
\* numbers greater than 1.0, or NULL where the payload held NaN.
AddMatchStoresNoOddsAtMostOne ==
  [][\A c \in Callers :
       (op[c] = "add_match" /\ pc[c] = "write" /\ pc'[c] = "audit")
       => \A i \in 1..Len(matches') :
            matches'[i].match_id = Cur(c).match_id
            => \A x \in {matches'[i].odds_h, matches'[i].odds_x,
                          matches'[i].odds_a} : x = NULL \/ x > One]_vars

\* ------------------------------------------------------------------ C13
\* C13 as stated: results are append-only and each insert_result call adds
\* exactly one new row, after the rows the table had, and leaves those rows,
\* the matches table and the audit log as they were.
C13_EachCallAddsOneRow ==
  /\ [][\A c \in Callers :
          (pc[c] = "result" /\ pc'[c] # "result")
          => /\ Len(results') = Len(results) + 1
             /\ SubSeq(results', 1, Len(results)) = results
             /\ results'[Len(results')].match_id = res[c].match_id
             /\ results'[Len(results')].ft_score = res[c].ft_score
             /\ matches' = matches
             /\ csv' = csv
             /\ torn' = torn]_vars
  /\ [][results' # results
          => \E c \in Callers : pc[c] = "result" /\ pc'[c] # "result"]_vars

\* C13: results are append-only. Every insert_result call that returns has
\* added exactly one new row, after the rows the table had; a call that ends
\* in an error of the store (HTTP 500) has added none; either way the rows
\* the table had, the matches table and the audit log are as they were. No
\* other step changes the results table; the row carries the submitted
\* match_id whether or not the matches table has a row of that id, and ids of
\* results are never reused.
C13_ResultsAppendOnly ==
  /\ [][\A c \in Callers :
          (pc[c] = "result" /\ pc'[c] # "result")
          => /\ matches' = matches
             /\ csv' = csv
             /\ torn' = torn
             /\ SubSeq(results', 1, Len(results)) = results
             /\ \/ /\ pc'[c] = "result_return"
                   /\ Len(results') = Len(results) + 1
                   /\ results'[Len(results')].match_id = res[c].match_id
                   /\ results'[Len(results')].ft_score = res[c].ft_score
                \/ /\ pc'[c] = "done"
                   /\ reply'[c].code = 500
                   /\ results' = results]_vars
  /\ [][\A c \in Callers :
          (pc[c] = "result_return" /\ pc'[c] # "result_return")
          => /\ pc'[c] = "done"
             /\ reply'[c].code = 200
             /\ reply'[c].status = "inserted_result"
             /\ UNCHANGED <<matches, results, csv, torn>>]_vars
  /\ [][results' # results
          => \E c \in Callers : pc[c] = "result" /\ pc'[c] = "result_return"]_vars
  /\ [](\A i, j \in 1..Len(results) : results[i].id = results[j].id => i = j)

\* An insert_result call has ended in an error of the store and the results
\* table has the row of an earlier call only.
ResultCallFailed ==
  \E c \in Callers :
    /\ op[c] = "add_result"
    /\ pc[c] = "done"
    /\ reply[c].code = 500
    /\ Len(results) = 1

\* Two results are stored for one match_id, the second with another score
\* than the first, and the matches table has no row of that id.
C13_Witness ==
  /\ Len(results) = 2
  /\ results[1].match_id = results[2].match_id
  /\ results[1].ft_score # results[2].ft_score
  /\ \A i \in 1..Len(matches) : matches[i].match_id # results[1].match_id

\* ------------------------------------------------------------------ C14
\* The row a read returned is, whole, the row of the write of its match_id
\* that was committed last when the read ran.
WholeRow(r) ==
  LET k == LastApplied(r.match_id)
  IN  /\ k # 0
      /\ \E t \in 0..MaxClock : r = MatchRow(applied[k], t)

\* C14: show_matches and predict never take the write lock: an idle caller
\* can run either of them in every state, whoever holds the lock, and the read
\* leaves the lock and the store as they are; every row a read returns is
\* whole the row of one committed write (the one before or the one after a
\* concurrent write), never a mixture of two.
C14_ReadsTakeNoLock ==
  /\ [](\A c \in Callers :
          (pc[c] = "idle" /\ others < MaxOthers)
          => (ENABLED show_matches(c)) /\ (ENABLED predict(c)))
  /\ [][\A c \in Callers :
          (pc[c] = "idle" /\ op'[c] \in {"show_matches", "predict"})
          => /\ lock' = lock
             /\ UNCHANGED <<matches, results, csv, torn>>
             /\ pc'[c] = "done"
             /\ \A i \in 1..Len(reply'[c].rows) : WholeRow(reply'[c].rows[i])
             /\ (op'[c] = "predict" /\ reply'[c].code = 200)
                  => LET k == LastApplied(reply'[c].match_id)
                     IN  /\ k # 0
                         /\ reply'[c].home = applied[k].home
                         /\ reply'[c].away = applied[k].away
                         /\ reply'[c].odds_used \in
                              {applied[k].odds_h, applied[k].odds_x,
                               applied[k].odds_a}]_vars

\* A show_matches call ran and ended while another caller was inside the
\* write section, between its SELECT and its UPDATE of the row listed: the
\* listing has the row as it was before that write.
C14_Witness ==
  \E c, d \in Callers :
    /\ pc[c] = "done"
    /\ op[c] = "show_matches"
    /\ reply[c].code = 200
    /\ Len(reply[c].rows) = 1
    /\ lock = d
    /\ pc[d] = "write"
    /\ existing[d]
    /\ Cur(d).match_id = reply[c].rows[1].match_id
    /\ Cur(d).home # reply[c].rows[1].home

\* ------------------------------------------------------------------ C15
\* The keys of odds in the order min() visits them.
Outcomes == <<"HOME", "DRAW", "AWAY">>

\* The stored row a finished predict call of caller c was about.
RowOf(c) ==
  matches[CHOOSE i \in 1..Len(matches) : matches[i].match_id = Cur(c).match_id]

\* Caller c has called predict with a valid key for a match_id that has a row.
PredictedStored(c) ==
  /\ op[c] = "predict"
  /\ pc[c] = "done"
  /\ req[c] # <<>>
  /\ FetchOne(matches, Cur(c).match_id)

\* The reply r picks the first, in the order HOME, DRAW, AWAY, of the outcomes
\* with the lowest stored odds of row, and odds_used is that stored value.
PicksLowest(r, row) ==
  \E p \in 1..3 :
    /\ r.pick = Outcomes[p]
    /\ r.odds_used = OddsOf(row)[Outcomes[p]]
    /\ \A k \in 1..3 : OddsOf(row)[Outcomes[p]] <= OddsOf(row)[Outcomes[k]]
    /\ \A k \in 1..(p - 1) : OddsOf(row)[Outcomes[k]] > OddsOf(row)[Outcomes[p]]

\* C15: for every stored match, the pick predict returns is the outcome with
\* the lowest of odds_h, odds_x, odds_a, the first of them in the order HOME,
\* DRAW, AWAY when several share the minimum, and odds_used is the stored odds
\* of the pick; the prediction is of the match asked for. (A call that ends
\* in an error returns no pick: those calls are the subject of C18.)
C15_PredictPicksLowest ==
  \A c \in Callers :
    (PredictedStored(c) /\ reply[c].code = 200)
    => /\ reply[c].match_id = Cur(c).match_id
       /\ PicksLowest(reply[c], RowOf(c))

\* A prediction was returned for a row whose DRAW and AWAY odds share the
\* minimum, below the HOME odds: DRAW is picked.
C15_Witness ==
  \E c \in Callers :
    /\ PredictedStored(c)
    /\ reply[c].code = 200
    /\ RowOf(c).odds_x = RowOf(c).odds_a
    /\ RowOf(c).odds_x < RowOf(c).odds_h
    /\ reply[c].pick = "DRAW"

\* A prediction was returned for a row with three equal odds: HOME is picked.
PredictionTie ==
  \E c \in Callers :
    /\ PredictedStored(c)
    /\ reply[c].code = 200
    /\ RowOf(c).odds_h = RowOf(c).odds_x
    /\ RowOf(c).odds_x = RowOf(c).odds_a
    /\ reply[c].pick = "HOME"

\* ------------------------------------------------------------------ C16
\* conf (hundredths) is 1/o clamped to [0.50, 0.95] and rounded to two
\* decimals, for odds o in hundredths.
ClampedRounded(conf, o) ==
  /\ conf >= 50
  /\ conf <= 95
  /\ (o < 0 \/ 10000 <= 50 * o) => conf = 50
  /\ (o > 0 /\ 10000 >= 95 * o) => conf = 95
  /\ (o > 0 /\ 50 * o < 10000 /\ 10000 < 95 * o)
       => /\ 2 * (conf * o - 10000) <= o
          /\ 2 * (10000 - conf * o) <= o
  /\ o = 150 => conf = 67
  /\ o = 120 => conf = 83

\* C16: for every stored match, the confidence predict returns is
\* 1/odds_of_pick clamped to [0.50, 0.95] and rounded to two decimals, so it
\* lies between 0.50 and 0.95 (odds 1.5 give 0.67, odds 1.2 give 0.83); the
\* odds of the pick are the lowest stored odds of the row.
C16_ConfidenceClampedRounded ==
  \A c \in Callers :
    (PredictedStored(c) /\ reply[c].code = 200)
    => /\ reply[c].odds_used \in
            {RowOf(c).odds_h, RowOf(c).odds_x, RowOf(c).odds_a}
       /\ ClampedRounded(reply[c].confidence, reply[c].odds_used)

\* A prediction was returned for lowest odds 1.5: confidence 0.67, inside the
\* interval.
C16_Witness ==
  \E c \in Callers :
    /\ PredictedStored(c)
    /\ reply[c].code = 200
    /\ reply[c].odds_used = 150
    /\ reply[c].confidence = 67

\* A prediction was returned for lowest odds 1.6: the half 0.625 is rounded to
\* the even 0.62.
PredictionHalfToEven ==
  \E c \in Callers :
    /\ PredictedStored(c)
    /\ reply[c].code = 200
    /\ reply[c].odds_used = 160
    /\ reply[c].confidence = 62

\* ------------------------------------------------------------------ C17
\* Caller c has got the listing of show_matches.
Listed(c) == op[c] = "show_matches" /\ pc[c] = "done" /\ reply[c].code = 200

\* The step by which show_matches returns a listing to caller c.
Lists(c) ==
  pc[c] = "idle" /\ op'[c] = "show_matches" /\ reply'[c].code = 200

\* C17 as stated: show_matches returns every live row exactly once, a match
\* whose most recent write was applied later before a match whose most recent
\* write was applied earlier.
C17_ListedByApplyOrder ==
  [][\A c \in Callers :
       Lists(c)
       => LET rows == reply'[c].rows
          IN  /\ Len(rows) = Len(matches)
              /\ \A i \in 1..Len(matches) :
                   Cardinality({j \in 1..Len(rows) : rows[j] = matches[i]}) = 1
              /\ \A i, j \in 1..Len(rows) :
                   i < j => LastApplied(rows[i].match_id) >
                              LastApplied(rows[j].match_id)]_vars

\* C17: show_matches returns every row that is live when it runs exactly
\* once, ordered by non-increasing created_at, the timestamp the last accepted
\* write of the row took: a row with a strictly later timestamp comes before a
\* row with an earlier one, and rows of one timestamp come in ascending
\* match_id order, whichever of them was written last.
C17_ListedByTimestamp ==
  [][\A c \in Callers :
       Lists(c)
       => LET rows == reply'[c].rows
          IN  /\ Len(rows) = Len(matches)
              /\ \A i \in 1..Len(matches) :
                   Cardinality({j \in 1..Len(rows) : rows[j] = matches[i]}) = 1
              /\ \A i, j \in 1..Len(rows) :
                   i < j => \/ rows[i].created_at > rows[j].created_at
                            \/ /\ rows[i].created_at = rows[j].created_at
                               /\ rows[i].match_id < rows[j].match_id
              /\ \A i \in 1..Len(rows) :
                   (\A j \in 1..Len(rows) \ {i} :
                      rows[i].created_at > rows[j].created_at) => i = 1]_vars

\* An update has moved its match to the front: match 2 was inserted before
\* match 1 and listed behind it, was then updated at a later clock reading,
\* and the listing of the two rows starts with it.
C17_Witness ==
  \E c \in Callers :
    /\ Listed(c)
    /\ Len(applied) = 3
    /\ applied[1].match_id = 2
    /\ applied[2].match_id = 1
    /\ applied[3].match_id = 2
    /\ Len(reply[c].rows) = 2
    /\ reply[c].rows[1].match_id = 2
    /\ reply[c].rows[1].home = applied[3].home
    /\ reply[c].rows[1].created_at > reply[c].rows[2].created_at

\* A listing of two inserted rows with the row written later, of the higher
\* match_id, in front of the row written earlier.
ListedLaterInsertFirst ==
  \E c \in Callers :
    /\ Listed(c)
    /\ Len(applied) = 2
    /\ Len(reply[c].rows) = 2
    /\ reply[c].rows[1].created_at > reply[c].rows[2].created_at
    /\ reply[c].rows[1].match_id > reply[c].rows[2].match_id
    /\ LastApplied(reply[c].rows[1].match_id) >
         LastApplied(reply[c].rows[2].match_id)

\* An update at the clock reading of the other row's write leaves its match
\* behind that row: match 2 is updated last and listed last.
ListedUpdateBehind ==
  \E c \in Callers :
    /\ Listed(c)
    /\ Len(applied) = 3
    /\ applied[3].match_id = 2
    /\ Len(reply[c].rows) = 2
    /\ reply[c].rows[2].match_id = 2
    /\ reply[c].rows[2].home = applied[3].home
    /\ reply[c].rows[1].created_at = reply[c].rows[2].created_at

\* ------------------------------------------------------------------ C18
\* The step by which predict answers caller c after it has read the store.
Predicts(c) ==
  /\ pc[c] = "idle"
  /\ op'[c] = "predict"
  /\ req'[c] # <<>>
  /\ reply'[c].status # "sqlite3.Error"

\* C18: predict has exactly two outcomes, for every match_id and every store
\* add_match and upload_matches can produce, whenever the store can be read:
\* NotFound (HTTP 404) if and only if the matches table has no row of the id,
\* and otherwise a prediction.
C18_PredictFoundOrNotFound ==
  [][\A c \in Callers :
       Predicts(c)
       => /\ reply'[c].code \in {200, 404}
          /\ reply'[c].code = 404
               <=> ~FetchOne(matches, req'[c][1].match_id)]_vars

\* What does hold: when the store can be read, predict answers 404 exactly
\* when the id has no row, and for a row it answers a prediction unless an
\* odds value of the row is NULL or the lowest odds value is 0, where it ends
\* in an unhandled exception.
PredictOutcomes ==
  [][\A c \in Callers :
       Predicts(c)
       => LET id == req'[c][1].match_id IN
          /\ reply'[c].code = 404 <=> ~FetchOne(matches, id)
          /\ FetchOne(matches, id)
               => LET row == matches[CHOOSE i \in 1..Len(matches) :
                                       matches[i].match_id = id]
                      o == {row.odds_h, row.odds_x, row.odds_a}
                  IN  /\ reply'[c].code \in {200, 500}
                      /\ reply'[c].code = 500
                           <=> (NULL \in o \/ (0 \in o /\ \A x \in o : x >= 0))]_vars

\* predict ended in ZeroDivisionError on a row upload_matches stored.
PredictDividedByZero ==
  \E c \in Callers :
    /\ PredictedStored(c)
    /\ reply[c].code = 500
    /\ reply[c].status = "ZeroDivisionError"
    /\ RowOf(c).odds_x = 0

\* ------------------------------------------------------------------ C19
\* The last data line of the audit log for match_id id, 0 when there is none.
LastEntry(id) ==
  LET ks == {k \in 1..Len(Entries) : Entries[k][1] = ToString(id)}
  IN  IF ks = {} THEN 0 ELSE CHOOSE k \in ks : \A l \in ks : l <= k

\* The text csv.writer writes for a value read from a REAL column (None is
\* written as the empty cell).
StoredText(x) == IF x = NULL THEN "" ELSE FloatText(x)

\* The audit line that carries the fields and the timestamp of a stored row.
LineOfRow(r) ==
  <<ToString(r.match_id), r.home, r.away, StoredText(r.odds_h),
    StoredText(r.odds_x), StoredText(r.odds_a), r.source,
    ToString(r.created_at)>>

\* C19: whenever the write lock is free and no step of any write has failed,
\* every live match row has an audit line, and the last audit line of its
\* match_id has the row's home, away, odds_h, odds_x, odds_a, source and
\* timestamp.
C19_StoreAndLogAgree ==
  (lock = NoHolder /\ ~failed)
  => \A i \in 1..Len(matches) :
       /\ LastEntry(matches[i].match_id) # 0
       /\ Entries[LastEntry(matches[i].match_id)] = LineOfRow(matches[i])

\* What does hold: with the lock free and no failed step, the last audit line
\* of every live row is the line of the write the row came from, with the
\* row's timestamp; the row has NULL where that line has nan.
StoreAndLogAgreeButNaN ==
  (lock = NoHolder /\ ~failed)
  => \A i \in 1..Len(matches) :
       LET k == LastEntry(matches[i].match_id)
           w == LastApplied(matches[i].match_id)
       IN  /\ k # 0
           /\ w # 0
           /\ audited[k] = w
           /\ Entries[k] = CsvRow(applied[w], matches[i].created_at)
           /\ matches[i] = MatchRow(applied[w], matches[i].created_at)

\* Two writes of one match_id were committed and logged with different
\* timestamps, nothing failed and the lock is free.
StoreAndLogAgreeReached ==
  /\ lock = NoHolder
  /\ ~failed
  /\ Len(matches) = 1
  /\ Len(Entries) = 2
  /\ Entries[1][8] # Entries[2][8]
  /\ Entries[2][8] = ToString(matches[1].created_at)

\* ------------------------------------------------------------------ C20
\* Caller c has started a write call that has not returned to the client.
Started(c) == pc[c] = "lock" \/ InWrite(c)

\* C20: the write lock is released on every exit path of
\* insert_or_update_match and insert_result, failures of the store and of the
\* audit append included: the lock is held only by a caller inside the write
\* section and every step that leaves the section frees it. So every
\* started write call returns, with a status or an error: a caller that waits
\* for the lock, also behind a write that failed, gets it and finishes once
\* the other callers have ended their write calls.
C20_LockReleasedCallsReturn ==
  /\ [](\A c \in Callers : lock = c => InWrite(c))
  /\ [][\A c \in Callers :
          (InWrite(c) /\ ~InWrite(c)') => lock' = NoHolder]_vars
  /\ \A c \in Callers : Started(c) ~> (pc[c] = "done")

\* The audit append of one caller raised while another caller waits for the
\* lock: the lock is free for the one that waits.
C20_Witness ==
  \E c, d \in Callers :
    /\ c # d
    /\ pc[c] = "done"
    /\ reply[c].code = 500
    /\ reply[c].status = "OSError"
    /\ pc[d] = "lock"
    /\ lock = NoHolder

====
